---- MODULE Spec2Model ----
(***************************************************************************)
(* Model of python/cudf/cudf/core/column_accessor.py: the nested-mapping   *)
(* column accessor (OrderedDictColumnAccessor over a NestedOrderedDict),   *)
(* the flat-index accessor (PandasColumnAccessor) and the helpers          *)
(* _compare_keys and _flatten_keys.                                        *)
(*                                                                         *)
(* A node of the nested mapping is a record                                *)
(*     [isdict |-> BOOLEAN, col |-> column id, items |-> sequence]         *)
(* where items is the ordered sequence of [k |-> segment, v |-> node]      *)
(* entries of an OrderedDict.  A column is an opaque value, modelled by    *)
(* its identity (a positive integer).                                      *)
(***************************************************************************)
EXTENDS Integers, Sequences, FiniteSets

VARIABLES columns, values, odict, phase, flat_cache, data0, nmiss, result

vars == <<columns, values, odict, phase, flat_cache, data0, nmiss, result>>

(***************************************************************************)
(* Bounds and input sets                                                   *)
(***************************************************************************)
\* number of (key, column) pairs the caller loads before building accessors
MaxCols == 3
\* number of lookups of an absent segment the model follows
MaxMiss == 1

\* key segments of the first and of the second level
Level1 == {"a", "b"}
Level2 == {"x", "y"}

\* slice(None), the wildcard of a pattern
Wild == "*"
\* the fillvalue of itertools.zip_longest
None == "None"

\* keys the caller stores columns under: two segments, or one segment
InsertKeys == {<<"a", "x">>, <<"a", "y">>, <<"b", "x">>, <<"b">>}

\* concrete keys handed to get_column: the empty key, keys of one or two
\* segments and keys one segment longer than any stored key
QueryKeys ==
    {<< >>} \cup {<<f>> : f \in Level1}
            \cup {<<f, s>> : f \in Level1, s \in Level2}
            \cup {<<f, "x", "x">> : f \in Level1}

\* patterns handed to get_columns: every position concrete or a wildcard,
\* shorter than, as long as and longer than the stored keys
Pat1 == Level1 \cup {Wild}
Pat2 == Level2 \cup {Wild}
Pat3 == {"x", Wild}
Patterns ==
    {<< >>} \cup {<<f>> : f \in Pat1}
            \cup {<<f, s>> : f \in Pat1, s \in Pat2}
            \cup {<<f, s, t>> : f \in {"a", Wild}, s \in {"x", Wild}, t \in Pat3}

\* positions handed to get_column_by_index
Indices == (0 - MaxCols - 1) .. (MaxCols + 1)

(***************************************************************************)
(* NestedOrderedDict                                                       *)
(***************************************************************************)
Leaf(c) == [isdict |-> FALSE, col |-> c, items |-> << >>]
Dict(its) == [isdict |-> TRUE, col |-> 0, items |-> its]
EmptyDict == Dict(<< >>)

\* position of segment k among the entries of an OrderedDict, 0 if absent
IndexOf(its, k) ==
    IF \E i \in 1..Len(its) : its[i].k = k
    THEN CHOOSE i \in 1..Len(its) : its[i].k = k
    ELSE 0

\* A call's outcome: kind is "ok" or the exception raised, ret the returned
\* object, d the mapping as the call leaves it.
Outcome(kind, ret, d) == [kind |-> kind, ret |-> ret, d |-> d]

\* d[k] for a single segment k.  A present key returns its value; a missing
\* key is handled by __missing__ of NestMissingMappingMixin, which stores a
\* new empty mapping under k and returns it.  Indexing a column (a numpy
\* array of floats) with a label raises IndexError.
getitem(d, k) ==
    IF ~d.isdict THEN Outcome("IndexError", << >>, d)
    ELSE LET i == IndexOf(d.items, k) IN
         IF i = 0
         THEN Outcome("ok", EmptyDict,
                      Dict(Append(d.items, [k |-> k, v |-> EmptyDict])))
         ELSE Outcome("ok", d.items[i].v, d)

\* d with the value stored under segment k replaced by v (k is present)
Replace(d, k, v) ==
    Dict([i \in 1..Len(d.items) |->
            IF d.items[i].k = k THEN [k |-> k, v |-> v] ELSE d.items[i]])

\* d[k] = v for a single segment k: OrderedDict.__setitem__
setitem(d, k, v) ==
    IF IndexOf(d.items, k) = 0
    THEN Dict(Append(d.items, [k |-> k, v |-> v]))
    ELSE Replace(d, k, v)

\* d[key] for a tuple key (NestTupleKeysMappingMixin): descend one segment
\* at a time and return what the last segment names
RECURSIVE getitem_tuple(_, _)
getitem_tuple(d, key) ==
    IF key = << >> THEN Outcome("ok", d, d)
    ELSE LET g == getitem(d, Head(key)) IN
         IF g.kind # "ok" THEN Outcome(g.kind, << >>, d)
         ELSE LET sub == getitem_tuple(g.ret, Tail(key)) IN
              Outcome(sub.kind, sub.ret, Replace(g.d, Head(key), sub.d))

\* d[key] = v for a tuple key (NestTupleKeysMappingMixin): descend through
\* all segments but the last, creating missing levels, and store v there
RECURSIVE setitem_tuple(_, _, _)
setitem_tuple(d, key, v) ==
    IF Len(key) = 1 THEN setitem(d, key[1], v)
    ELSE LET g == getitem(d, Head(key)) IN
         Replace(g.d, Head(key), setitem_tuple(g.ret, Tail(key), v))

\* the caller stores a column under key only where no column already sits
\* at a proper prefix of key (the store would index into that column)
RECURSIVE CanInsert(_, _)
CanInsert(d, key) ==
    IF Len(key) = 1 THEN TRUE
    ELSE LET i == IndexOf(d.items, Head(key)) IN
         IF i = 0 THEN TRUE
         ELSE d.items[i].v.isdict /\ CanInsert(d.items[i].v, Tail(key))

(***************************************************************************)
(* _compare_keys and _flatten_keys                                         *)
(***************************************************************************)
Max(a, b) == IF a >= b THEN a ELSE b

\* the i-th element zip_longest(..., fillvalue=None) yields for sequence s
Padded(s, i) == IF i <= Len(s) THEN s[i] ELSE None

\* zip instead of zip_longest: positions past the shorter sequence are
\* not compared
_compare_keys_zip(key, target) ==
    \A i \in 1..(IF Len(key) <= Len(target) THEN Len(key) ELSE Len(target)) :
        target[i] = Wild \/ key[i] = target[i]

\* the wildcard test is missing
_compare_keys_nowild(key, target) ==
    \A i \in 1..Max(Len(key), Len(target)) :
        Padded(key, i) = Padded(target, i)

\* for k1, k2 in zip_longest(key, target, fillvalue=None):
\*     if k2 == slice(None): continue
\*     if k1 != k2: return False
\* return True
_compare_keys(key, target) ==
    \A i \in 1..Max(Len(key), Len(target)) :
        \/ Padded(target, i) = Wild
        \/ Padded(key, i) = Padded(target, i)

\* the generator _flatten(d, parents), resumed at entry i of d
RECURSIVE _flatten(_, _, _)
_flatten(d, parents, i) ==
    IF i > Len(d.items) THEN << >>
    ELSE LET k == d.items[i].k
             v == d.items[i].v
         IN  (IF ~v.isdict
              THEN << Append(parents, k) >>
              ELSE _flatten(v, Append(parents, k), 1))
             \o _flatten(d, parents, i + 1)

_flatten_keys(d) == _flatten(d, << >>, 1)

(***************************************************************************)
(* OrderedDictColumnAccessor                                               *)
(***************************************************************************)
Unset == [set |-> FALSE, keys |-> << >>]

\* the cached property _flat_keys: computed on first use, then reused
_flat_keys(cache, data) ==
    IF cache.set THEN cache.keys ELSE _flatten_keys(data)

\* d = self._data; for k in key: d = d[k]
RECURSIVE get_column_loop(_, _)
get_column_loop(d, key) ==
    IF key = << >> THEN Outcome("ok", d, d)
    ELSE LET g == getitem(d, Head(key)) IN
         IF g.kind # "ok" THEN Outcome(g.kind, << >>, d)
         ELSE LET sub == get_column_loop(g.ret, Tail(key)) IN
              Outcome(sub.kind, sub.ret, Replace(g.d, Head(key), sub.d))

\* the loop stops one segment early
get_column_early(data, key) ==
    get_column_loop(data, SubSeq(key, 1, Len(key) - 1))

get_column(data, key) == get_column_loop(data, key)

\* [self.get_column(k) for k in flat if _compare_keys(k, key)], from entry i
RECURSIVE get_columns_loop(_, _, _, _)
get_columns_loop(data, flat, key, i) ==
    IF i > Len(flat) THEN Outcome("ok", << >>, data)
    ELSE IF ~_compare_keys(flat[i], key)
         THEN get_columns_loop(data, flat, key, i + 1)
         ELSE LET g == get_column(data, flat[i]) IN
              IF g.kind # "ok" THEN Outcome(g.kind, << >>, g.d)
              ELSE LET rest == get_columns_loop(g.d, flat, key, i + 1) IN
                   Outcome(rest.kind,
                           IF rest.kind = "ok" THEN << g.ret >> \o rest.ret
                                               ELSE << >>,
                           rest.d)

get_columns(data, flat, key) == get_columns_loop(data, flat, key, 1)

\* positions below zero are rejected instead of counted from the end
PyIndex_nowrap(n, i) == IF 0 <= i /\ i < n THEN i + 1 ELSE 0

\* t[i] of a Python sequence: positions -Len(t)..-1 count from the end,
\* positions outside -Len(t)..Len(t)-1 raise IndexError (0 here)
PyIndex(n, i) ==
    IF 0 <= i /\ i < n THEN i + 1
    ELSE IF 0 - n <= i /\ i < 0 THEN n + i + 1
    ELSE 0

\* the position is taken one too low
get_column_by_index_off(data, flat, i) ==
    LET p == IF Len(flat) = 0 THEN 0 ELSE ((i - 1) % Len(flat)) + 1 IN
    IF PyIndex(Len(flat), i) = 0 THEN Outcome("IndexError", << >>, data)
    ELSE getitem_tuple(data, flat[p])

\* self._data[self._flat_keys[key]]
get_column_by_index(data, flat, i) ==
    LET p == PyIndex(Len(flat), i) IN
    IF p = 0 THEN Outcome("IndexError", << >>, data)
    ELSE getitem_tuple(data, flat[p])

(***************************************************************************)
(* PandasColumnAccessor: a label index (columns) and the parallel          *)
(* sequence of column values                                               *)
(***************************************************************************)
\* number of levels of the label index
NLevels(cols) == Len(cols[1])

\* pd.MultiIndex.from_tuples builds the index from a set of tuples of equal
\* length: at least one key, all of one length above one, no key twice
IsMultiIndex(cols) ==
    /\ Len(cols) >= 1
    /\ NLevels(cols) > 1
    /\ \A i \in 1..Len(cols) : Len(cols[i]) = NLevels(cols)
    /\ \A i, j \in 1..Len(cols) : cols[i] = cols[j] => i = j

\* the positions of set hits among 1..n, ascending, from position i on
RECURSIVE Locs(_, _, _)
Locs(hits, n, i) ==
    IF i > n THEN << >>
    ELSE (IF i \in hits THEN << i >> ELSE << >>) \o Locs(hits, n, i + 1)

\* key is a prefix of k
IsPrefix(key, k) ==
    Len(key) <= Len(k) /\ \A i \in 1..Len(key) : key[i] = k[i]

\* every position of pattern is a wildcard or the segment of k there
LevelMatch(pattern, k) ==
    Len(pattern) <= Len(k)
    /\ \A i \in 1..Len(pattern) : pattern[i] = Wild \/ pattern[i] = k[i]

\* the labels of level i of the index
LevelLabels(cols, i) == {cols[j][i] : j \in 1..Len(cols)}

\* self._values[self._columns.get_loc(key)]: a key of all levels names one
\* position, a shorter key the positions under it; a key of too many levels
\* or without a match raises KeyError
pd_get_column(cols, vals, key) ==
    LET locs == Locs({i \in 1..Len(cols) : IsPrefix(key, cols[i])},
                     Len(cols), 1)
    IN  IF Len(key) > NLevels(cols) \/ locs = << >>
        THEN Outcome("KeyError", << >>, << >>)
        ELSE IF Len(key) = NLevels(cols)
             THEN Outcome("ok", Leaf(vals[locs[1]]), << >>)
             ELSE Outcome("ok", [i \in 1..Len(locs) |-> Leaf(vals[locs[i]])],
                          << >>)

\* self._values[self._columns.get_locs(key)]: the positions whose key agrees
\* with the pattern on every level the pattern names; a pattern of too many
\* levels or naming a label no key has at that level raises KeyError
pd_get_columns(cols, vals, key) ==
    LET locs == Locs({i \in 1..Len(cols) : LevelMatch(key, cols[i])},
                     Len(cols), 1)
    IN  IF \/ Len(key) > NLevels(cols)
           \/ \E i \in 1..Len(key) :
                 key[i] # Wild /\ key[i] \notin LevelLabels(cols, i)
        THEN Outcome("KeyError", << >>, << >>)
        ELSE Outcome("ok", [i \in 1..Len(locs) |-> Leaf(vals[locs[i]])], << >>)

\* self._values[index]
pd_get_column_by_index(vals, i) ==
    LET p == PyIndex(Len(vals), i) IN
    IF p = 0 THEN Outcome("IndexError", << >>, << >>)
    ELSE Outcome("ok", Leaf(vals[p]), << >>)

(***************************************************************************)
(* The state machine                                                       *)
(***************************************************************************)
NoCall == [acc |-> "none", op |-> "none", arg |-> << >>,
           kind |-> "none", ret |-> << >>]
Call(acc, op, arg, o) ==
    [acc |-> acc, op |-> op, arg |-> arg, kind |-> o.kind, ret |-> o.ret]

Init ==
    /\ columns = << >>
    /\ values = << >>
    /\ odict = EmptyDict
    /\ phase = "build"
    /\ flat_cache = Unset
    /\ data0 = EmptyDict
    /\ nmiss = 0
    /\ result = NoCall

\* odict[idx] = col, for the next (idx, col) pair of the caller's data
Insert(key) ==
    /\ phase = "build"
    /\ Len(columns) < MaxCols
    /\ CanInsert(odict, key)
    /\ columns' = Append(columns, key)
    /\ values' = Append(values, Len(values) + 1)
    /\ odict' = setitem_tuple(odict, key, Leaf(Len(values) + 1))
    /\ UNCHANGED <<phase, flat_cache, data0, nmiss, result>>

\* OrderedDictColumnAccessor(odict) and PandasColumnAccessor(columns, values)
Construct ==
    /\ phase = "build"
    /\ phase' = "ready"
    /\ data0' = odict
    /\ UNCHANGED <<columns, values, odict, flat_cache, nmiss, result>>

\* the wrapped mapping after a call that left it as d
Store(d) ==
    /\ d # odict => nmiss < MaxMiss
    /\ odict' = d
    /\ nmiss' = IF d # odict THEN nmiss + 1 ELSE nmiss

GetColumn(key) ==
    /\ phase = "ready"
    /\ LET o == get_column(odict, key) IN
       /\ Store(o.d)
       /\ result' = Call("odict", "get_column", key, o)
    /\ UNCHANGED <<columns, values, phase, flat_cache, data0>>

GetColumns(key) ==
    /\ phase = "ready"
    /\ LET flat == _flat_keys(flat_cache, odict)
           o == get_columns(odict, flat, key)
       IN  /\ flat_cache' = [set |-> TRUE, keys |-> flat]
           /\ Store(o.d)
           /\ result' = Call("odict", "get_columns", key, o)
    /\ UNCHANGED <<columns, values, phase, data0>>

GetColumnByIndex(i) ==
    /\ phase = "ready"
    /\ LET flat == _flat_keys(flat_cache, odict)
           o == get_column_by_index(odict, flat, i)
       IN  /\ flat_cache' = [set |-> TRUE, keys |-> flat]
           /\ Store(o.d)
           /\ result' = Call("odict", "get_column_by_index", i, o)
    /\ UNCHANGED <<columns, values, phase, data0>>

PdGetColumn(key) ==
    /\ phase = "ready"
    /\ IsMultiIndex(columns)
    /\ key # << >>
    /\ result' = Call("pandas", "get_column", key,
                      pd_get_column(columns, values, key))
    /\ UNCHANGED <<columns, values, odict, phase, flat_cache, data0, nmiss>>

PdGetColumns(key) ==
    /\ phase = "ready"
    /\ IsMultiIndex(columns)
    /\ result' = Call("pandas", "get_columns", key,
                      pd_get_columns(columns, values, key))
    /\ UNCHANGED <<columns, values, odict, phase, flat_cache, data0, nmiss>>

PdGetColumnByIndex(i) ==
    /\ phase = "ready"
    /\ result' = Call("pandas", "get_column_by_index", i,
                      pd_get_column_by_index(values, i))
    /\ UNCHANGED <<columns, values, odict, phase, flat_cache, data0, nmiss>>

Next ==
    \/ \E key \in InsertKeys : Insert(key)
    \/ Construct
    \/ \E key \in QueryKeys : GetColumn(key)
    \/ \E key \in Patterns : GetColumns(key)
    \/ \E i \in Indices : GetColumnByIndex(i)
    \/ \E key \in QueryKeys : PdGetColumn(key)
    \/ \E key \in Patterns : PdGetColumns(key)
    \/ \E i \in Indices : PdGetColumnByIndex(i)

Spec == Init /\ [][Next]_vars

(***************************************************************************)
(* What the caller stored, read off the caller's own list of pairs         *)
(***************************************************************************)
ProperPrefix(p, k) ==
    Len(p) < Len(k) /\ \A i \in 1..Len(p) : p[i] = k[i]

\* pair i is still in the mapping: no later pair stored a column under the
\* same key or under a prefix of it
Live(i) ==
    \A j \in (i + 1)..Len(columns) :
        columns[j] # columns[i] /\ ~ProperPrefix(columns[j], columns[i])

LiveKeys == {columns[i] : i \in {j \in 1..Len(columns) : Live(j)}}

\* the column stored under the leaf key-path k
ColumnOf(k) ==
    Leaf(values[CHOOSE i \in 1..Len(columns) : Live(i) /\ columns[i] = k])

\* N, the number of leaves
LeafCount == Cardinality(LiveKeys)

\* the longest leaf key-path
KeyDepth ==
    IF LiveKeys = {} THEN 0
    ELSE CHOOSE n \in 1..3 :
            /\ \E k \in LiveKeys : Len(k) = n
            /\ \A k \in LiveKeys : Len(k) <= n

AllWild(n) == [i \in 1..n |-> Wild]

TwoLevel == \A i \in 1..Len(columns) : Len(columns[i]) = 2

\* what is stored at path p of mapping d, Absent if nothing is
Absent == [isdict |-> FALSE, col |-> 0 - 1, items |-> << >>]
RECURSIVE NodeAt(_, _)
NodeAt(d, p) ==
    IF p = << >> THEN d
    ELSE IF ~d.isdict \/ IndexOf(d.items, Head(p)) = 0 THEN Absent
         ELSE NodeAt(d.items[IndexOf(d.items, Head(p))].v, Tail(p))

Called(acc, op) == result.acc = acc /\ result.op = op

\* the flattened keys the accessor works with in the current state
CurFlat == _flat_keys(flat_cache, odict)

(***************************************************************************)
(* C1: get_column(p) of the nested accessor, for a leaf key-path p of one  *)
(* or two segments (mappings of non-uniform depth included), returns the   *)
(* column the caller stored at p, and nothing else.                        *)
(***************************************************************************)
C1_GetColumnReturnsLeaf ==
    (Called("odict", "get_column") /\ result.arg \in LiveKeys)
        => (result.kind = "ok" /\ result.ret = ColumnOf(result.arg))

\* a two-segment leaf was fetched from a mapping that also has a
\* one-segment leaf
C1_Witness ==
    /\ Called("odict", "get_column")
    /\ result.arg \in LiveKeys
    /\ Len(result.arg) = 2
    /\ <<"b">> \in LiveKeys
    /\ result.kind = "ok"

(***************************************************************************)
(* C2 as stated: on a two-level mapping, get_columns((wildcard, 'x'))      *)
(* returns exactly the columns whose second segment is 'x', in the order   *)
(* in which the caller inserted them.  (Stated for distinct keys.)         *)
(***************************************************************************)
XKeys == {k \in LiveKeys : Len(k) = 2 /\ k[2] = "x"}

\* the columns of the keys in XKeys in the order of the caller's list
RECURSIVE InsertedX(_)
InsertedX(i) ==
    IF i > Len(columns) THEN << >>
    ELSE (IF Live(i) /\ columns[i] \in XKeys THEN << Leaf(values[i]) >>
                                             ELSE << >>)
         \o InsertedX(i + 1)

C2_Original ==
    (/\ Called("odict", "get_columns")
     /\ result.arg = <<Wild, "x">>
     /\ IsMultiIndex(columns))
        => (result.kind = "ok" /\ result.ret = InsertedX(1))

(***************************************************************************)
(* C2 amended: on a two-level mapping, get_columns((wildcard, 'x'))        *)
(* returns exactly the columns whose second segment is 'x', each once, in  *)
(* the traversal order of the mapping: ordered by the first insertion of   *)
(* their first segment.                                                    *)
(***************************************************************************)
\* the position at which first segment f was first inserted
FirstSeen(f) ==
    CHOOSE i \in 1..Len(columns) :
        /\ columns[i][1] = f
        /\ \A j \in 1..(i - 1) : columns[j][1] # f

\* the key the column c was stored under (columns are numbered as inserted)
KeyOf(c) == columns[c.col]

C2_WildcardTraversalOrder ==
    (/\ Called("odict", "get_columns")
     /\ result.arg = <<Wild, "x">>
     /\ TwoLevel)
        => /\ result.kind = "ok"
           /\ Len(result.ret) = Cardinality(XKeys)
           /\ {result.ret[i] : i \in 1..Len(result.ret)}
                 = {ColumnOf(k) : k \in XKeys}
           /\ \A i, j \in 1..Len(result.ret) :
                 i < j => FirstSeen(KeyOf(result.ret[i])[1])
                            < FirstSeen(KeyOf(result.ret[j])[1])

\* two columns with second segment 'x' came back in an order other than
\* the one they were inserted in
C2_Witness ==
    /\ Called("odict", "get_columns")
    /\ result.arg = <<Wild, "x">>
    /\ TwoLevel
    /\ Len(result.ret) = 2
    /\ result.ret[1].col > result.ret[2].col

(***************************************************************************)
(* C3: with N leaves and D the key depth (the longest leaf key-path),      *)
(* get_column_by_index(i) for 0 <= i < N is element i of                   *)
(* get_columns(all-wildcard pattern of length D), and that full-wildcard   *)
(* result has exactly N elements.                                          *)
(***************************************************************************)
C3_IndexAgreesWithFullWildcard ==
    /\ (Called("odict", "get_column_by_index")
        /\ 0 <= result.arg /\ result.arg < LeafCount)
          => LET all == get_columns(odict, CurFlat, AllWild(KeyDepth)) IN
             /\ result.kind = "ok"
             /\ all.kind = "ok"
             /\ Len(all.ret) = LeafCount
             /\ result.ret = all.ret[result.arg + 1]
    /\ (Called("odict", "get_columns") /\ result.arg = AllWild(KeyDepth))
          => /\ result.kind = "ok"
             /\ Len(result.ret) = LeafCount
             /\ \A i \in 0..(LeafCount - 1) :
                   get_column_by_index(odict, CurFlat, i).ret
                      = result.ret[i + 1]

\* the last of three leaves was fetched by position
C3_Witness ==
    /\ Called("odict", "get_column_by_index")
    /\ LeafCount = 3
    /\ result.arg = 2
    /\ result.kind = "ok"

(***************************************************************************)
(* C4 as stated: with the same pairs loaded into both accessors, a         *)
(* get_column(k) or a get_columns(pattern) the flat-index accessor answers *)
(* is answered by the nested accessor with the same columns in the same    *)
(* order (full keys, wildcard patterns and shorter keys alike).            *)
(***************************************************************************)
C4_Parity ==
    /\ (Called("pandas", "get_column") /\ result.kind = "ok"
        /\ Len(result.arg) = NLevels(columns))
          => LET o == get_column(odict, result.arg) IN
             o.kind = "ok" /\ o.ret = result.ret
    /\ (Called("pandas", "get_columns") /\ result.kind = "ok"
        /\ result.arg # << >>)
          => LET o == get_columns(odict, CurFlat, result.arg) IN
             o.kind = "ok" /\ o.ret = result.ret

(***************************************************************************)
(* C5 as stated: _compare_keys(key, target) is True whenever every         *)
(* position of target is a wildcard or equals the segment of key at that   *)
(* position, trailing positions of a longer key being unconstrained; so    *)
(* get_columns returns every column whose key agrees with the pattern on   *)
(* the pattern's positions.                                                *)
(***************************************************************************)
PositionsAgree(key, target) ==
    \A i \in 1..Len(target) :
        target[i] = Wild \/ (i <= Len(key) /\ key[i] = target[i])

C5_ShorterTargetMatches ==
    (Called("odict", "get_columns") /\ result.arg # << >>)
        => \A k \in LiveKeys :
              PositionsAgree(k, result.arg)
                 => /\ _compare_keys(k, result.arg)
                    /\ \E i \in 1..Len(result.ret) : result.ret[i] = ColumnOf(k)

(***************************************************************************)
(* C6 as stated: get_column with a key that is a proper prefix of a leaf   *)
(* key-path fails; it never returns a sub-mapping.                         *)
(***************************************************************************)
PrefixOfLeaf(key) == \E k \in LiveKeys : ProperPrefix(key, k)

C6_Original ==
    (/\ Called("odict", "get_column")
     /\ result.arg # << >>
     /\ PrefixOfLeaf(result.arg))
        => result.kind # "ok"

(***************************************************************************)
(* C6 amended: get_column with a key that is a proper prefix of a leaf     *)
(* key-path returns normally, and its result is the sub-mapping stored     *)
(* under that prefix, the one holding exactly the leaves below the prefix. *)
(***************************************************************************)
C6_PrefixReturnsSubMapping ==
    (Called("odict", "get_column") /\ PrefixOfLeaf(result.arg))
        => /\ result.kind = "ok"
           /\ result.ret.isdict
           /\ result.ret = NodeAt(odict, result.arg)
           /\ LET sub == _flatten_keys(result.ret) IN
              {result.arg \o sub[i] : i \in 1..Len(sub)}
                 = {k \in LiveKeys : ProperPrefix(result.arg, k)}

\* the first segment of a two-segment leaf key-path was looked up alone
C6_Witness ==
    /\ Called("odict", "get_column")
    /\ Len(result.arg) = 1
    /\ PrefixOfLeaf(result.arg)
    /\ result.kind = "ok"

(***************************************************************************)
(* C7 as stated: get_column with a key one of whose segments is absent at  *)
(* its level of the mapping fails with a key-not-found error.              *)
(***************************************************************************)
\* some segment of key is not among the keys of the mapping the segments
\* before it lead to, in the mapping as the accessor was given it
AbsentSegment(key) ==
    \E n \in 1..Len(key) :
        LET at == NodeAt(data0, SubSeq(key, 1, n - 1)) IN
        at.isdict /\ IndexOf(at.items, key[n]) = 0

C7_MissingSegmentRaises ==
    (Called("odict", "get_column") /\ AbsentSegment(result.arg))
        => result.kind = "KeyError"

(***************************************************************************)
(* C8 as stated: for both accessors with N columns, get_column_by_index(i) *)
(* fails for every i outside 0..N-1, negative i included, and returns a    *)
(* column for every i inside.                                              *)
(***************************************************************************)
CountOf(acc) == IF acc = "odict" THEN LeafCount ELSE Len(values)

C8_Original ==
    result.op = "get_column_by_index"
        => LET n == CountOf(result.acc) IN
           IF 0 <= result.arg /\ result.arg < n
           THEN result.kind = "ok"
           ELSE result.kind = "IndexError"

(***************************************************************************)
(* C8 amended: for both accessors with N columns, get_column_by_index(i)   *)
(* fails with an out-of-range error exactly for i < -N and for i >= N; for *)
(* 0 <= i < N it returns column i of the accessor's order, and for         *)
(* -N <= i < 0 it returns column N + i.                                    *)
(***************************************************************************)
\* column p (from 1) in the order of the named accessor
Ordered(acc, p) ==
    IF acc = "odict"
    THEN get_columns(odict, CurFlat, AllWild(KeyDepth)).ret[p]
    ELSE Leaf(values[p])

C8_IndexRange ==
    result.op = "get_column_by_index"
        => LET n == CountOf(result.acc)
               i == result.arg
           IN  IF i < 0 - n \/ i >= n
               THEN result.kind = "IndexError"
               ELSE /\ result.kind = "ok"
                    /\ result.ret
                         = Ordered(result.acc, IF i >= 0 THEN i + 1 ELSE n + i + 1)

\* the nested accessor was asked for position -1 and returned its last
\* column
C8_Witness ==
    /\ Called("odict", "get_column_by_index")
    /\ result.arg = 0 - 1
    /\ LeafCount >= 2
    /\ result.kind = "ok"

(***************************************************************************)
(* C9: get_columns never fails, and for a pattern that no leaf key-path    *)
(* matches (a concrete position of the pattern differs from the key's      *)
(* segment there or lies past the key's end), whatever the pattern's       *)
(* length and also on an empty mapping, it returns the empty sequence.     *)
(***************************************************************************)
NoLeafMatches(target) ==
    \A k \in LiveKeys :
        \E i \in 1..Len(target) :
            target[i] # Wild /\ (i > Len(k) \/ k[i] # target[i])

C9_NoMatchIsEmpty ==
    Called("odict", "get_columns")
        => /\ result.kind = "ok"
           /\ NoLeafMatches(result.arg) => result.ret = << >>

\* a pattern longer than every key, agreeing with a leaf key-path on the
\* key's positions, matched nothing
C9_Witness ==
    /\ Called("odict", "get_columns")
    /\ Len(result.arg) = 3
    /\ \E k \in LiveKeys : Len(k) = 2 /\ \A i \in 1..2 : result.arg[i] = k[i]
    /\ NoLeafMatches(result.arg)
    /\ result.kind = "ok"
    /\ result.ret = << >>

(***************************************************************************)
(* C10 as stated: whatever calls were made on the nested accessor, the     *)
(* wrapped mapping is as it was at construction.                           *)
(***************************************************************************)
C10_MappingUnchanged ==
    phase = "ready" => odict = data0
====
